---------------------------- MODULE Spec2Model ----------------------------
(***************************************************************************)
(* A model of src/renewal.py: the XServer VPS renewal script.              *)
(*                                                                         *)
(*   CaptchaSolver._validate_code, CaptchaSolver.solve   (OCR challenge)   *)
(*   TurnstileSolver.solve                       (interactive challenge)   *)
(*   XServerVPSRenewal.complete_turnstile_verification, open_extend,       *)
(*   submit_extend, generate_readme, save_cache, run     (the workflow)    *)
(*                                                                         *)
(* Everything outside the script (the browser page, the two solving        *)
(* services, the file system, the clock) is the environment: every call    *)
(* into it is a nondeterministic choice over what the call can return or   *)
(* raise.                                                                  *)
(*                                                                         *)
(* Strings whose characters matter (the OCR text, the code, the expiry     *)
(* date) are sequences; None, where such a string may stand, is NoneSeq,   *)
(* the tuple <<"None">>, which is no string of characters.  Every other    *)
(* value is an atom, and None among atoms is the atom "None".              *)
(*                                                                         *)
(* src/renewal.py lines 556-570 hold both sides of an unresolved edit of   *)
(* complete_turnstile_verification (has_turnstile / turnstile_info).  The  *)
(* model follows the turnstile_info side, the one the rest of the function *)
(* (turnstile_info.get('sitekey'), line 574) is written against.           *)
(***************************************************************************)
EXTENDS Integers, Sequences, FiniteSets, TLC

None == "None"
NoneSeq == <<"None">>

Min(S) == CHOOSE x \in S : \A y \in S : x <= y
Max(S) == CHOOSE x \in S : \A y \in S : x >= y

(***************************************************************************)
(* Bounds of the model.                                                    *)
(***************************************************************************)
\* longest code handed to _validate_code (the code accepts 4..6: 7 is too long)
MaxCodeLen == 7
\* longest OCR response text over the whole alphabet
MaxTextLen == 6
\* longest OCR response text made of digits only (the code keeps 6 of them)
MaxDigitRun == 7
\* the OCR service fails at most this many times before it would succeed:
\* when CaptchaSolver.solve is run on its own, and in a whole run
MaxFail == 4
MaxRunFail == 3

(***************************************************************************)
(* Characters and strings (str.strip, str.isdigit, re.findall(r'\d+')).    *)
(***************************************************************************)
Digits == {"0", "1", "2", "3", "4", "5", "6", "7", "8", "9"}
Whitespace == {" "}
\* the characters texts are built from: two digits, a letter, a blank
Alphabet == {"1", "2", "a", " "}

StringsUpTo(S, n) == UNION {[1..k -> S] : k \in 0..n}

\* str.isdigit(): every character is a digit and there is at least one
isdigit(s) == Len(s) > 0 /\ \A i \in 1..Len(s) : s[i] \in Digits

\* len(set(code))
DistinctChars(s) == Cardinality({s[i] : i \in 1..Len(s)})

\* str.strip(): leading and trailing whitespace removed
strip(s) ==
    LET keep == {i \in 1..Len(s) : s[i] \notin Whitespace}
    IN  IF keep = {} THEN <<>> ELSE SubSeq(s, Min(keep), Max(keep))

\* re.findall(r'\d+', s): the maximal runs of digits, left to right
DigitRunStarts(s) ==
    {i \in 1..Len(s) : s[i] \in Digits /\ (i = 1 \/ s[i-1] \notin Digits)}
DigitRunEnd(s, a) ==
    Min({j \in a..Len(s) : j = Len(s) \/ s[j+1] \notin Digits})
RECURSIVE RunsFrom(_, _)
RunsFrom(s, from) ==
    LET starts == {i \in DigitRunStarts(s) : i >= from}
    IN  IF starts = {} THEN <<>>
        ELSE LET a == Min(starts)
                 b == DigitRunEnd(s, a)
             IN  <<SubSeq(s, a, b)>> \o RunsFrom(s, b + 1)
findall_digits(s) == RunsFrom(s, 1)

\* s[:n]
Prefix(s, n) == SubSeq(s, 1, IF Len(s) < n THEN Len(s) ELSE n)

(***************************************************************************)
(* CaptchaSolver._validate_code (lines 111-128).                           *)
(***************************************************************************)
MinCodeLen == 4
MaxValidLen == 6

\* variant: the upper length test off by one (7 characters accepted)
validate_len_off_by_one(code) ==
    IF code = NoneSeq \/ code = <<>> THEN FALSE
    ELSE IF Len(code) < MinCodeLen \/ Len(code) > MaxValidLen + 1 THEN FALSE
    ELSE IF DistinctChars(code) = 1 THEN FALSE
    ELSE IF ~isdigit(code) THEN FALSE
    ELSE TRUE

_validate_code(code) ==
    IF code = NoneSeq \/ code = <<>> THEN FALSE                       \* not code
    ELSE IF Len(code) < MinCodeLen \/ Len(code) > MaxValidLen THEN FALSE
    ELSE IF DistinctChars(code) = 1 THEN FALSE
    ELSE IF ~isdigit(code) THEN FALSE
    ELSE TRUE

(***************************************************************************)
(* The calendar (datetime.date, datetime.strptime, date - timedelta).      *)
(* A date is a record [y, m, d].                                           *)
(***************************************************************************)
IsLeap(y) == (y % 4 = 0) /\ ((y % 100 # 0) \/ (y % 400 = 0))
DaysInMonth(y, m) ==
    IF m = 2 THEN (IF IsLeap(y) THEN 29 ELSE 28)
    ELSE IF m \in {4, 6, 9, 11} THEN 30 ELSE 31

\* int() of a string of decimal digits, the digits given as numbers
RECURSIVE DigitsToInt(_)
DigitsToInt(s) ==
    IF s = <<>> THEN 0
    ELSE 10 * DigitsToInt(SubSeq(s, 1, Len(s) - 1)) + s[Len(s)]

\* str.zfill(2)
zfill2(s) == IF Len(s) < 2 THEN <<0>> \o s ELSE s

\* The text get_expiry builds from the page's match (lines 432-436):
\* "{year}-{month.zfill(2)}-{day.zfill(2)}", kept as its three fields.
FormatExpiry(match) == <<match[1], zfill2(match[2]), zfill2(match[3])>>

\* datetime.strptime(text, "%Y-%m-%d").date(): the date, or ValueError
ValueError == [y |-> 0, m |-> 0, d |-> 0]
strptime(text) ==
    LET y == DigitsToInt(text[1])
        m == DigitsToInt(text[2])
        d == DigitsToInt(text[3])
    IN  IF Len(text[1]) = 4 /\ y >= 1 /\ m \in 1..12 /\ d >= 1 /\ d <= DaysInMonth(y, m)
        THEN [y |-> y, m |-> m, d |-> d]
        ELSE ValueError

\* date - timedelta(days=1): the day before, or OverflowError before 0001-01-01
OverflowError == [y |-> 0, m |-> 0, d |-> 1]
MinusOneDay(dt) ==
    IF dt.d > 1 THEN [dt EXCEPT !.d = dt.d - 1]
    ELSE IF dt.m > 1 THEN [y |-> dt.y, m |-> dt.m - 1, d |-> DaysInMonth(dt.y, dt.m - 1)]
    ELSE IF dt.y > 1 THEN [y |-> dt.y - 1, m |-> 12, d |-> 31]
    ELSE OverflowError

\* date < date: by year, then month, then day
DateLess(a, b) ==
    \/ a.y < b.y
    \/ a.y = b.y /\ a.m < b.m
    \/ a.y = b.y /\ a.m = b.m /\ a.d < b.d

(***************************************************************************)
(* The eligibility decision of run() (lines 1103-1136): what the gate does *)
(* with the captured expiry text and today's date in JST.                  *)
(*   "skipped"     no expiry text was captured                             *)
(*   "raised"      strptime or the subtraction raised                      *)
(*   "ineligible"  today_jst < can_extend_date                             *)
(*   "eligible"    otherwise                                               *)
(***************************************************************************)
\* variant: an expiry text that is no date counts as not yet due
GateDecisionInvalidNotDue(expiry_text, today) ==
    IF expiry_text = NoneSeq THEN "skipped"
    ELSE LET expiry_date == strptime(expiry_text)
         IN  IF expiry_date = ValueError THEN "ineligible"
             ELSE LET can_extend_date == MinusOneDay(expiry_date)
                  IN  IF can_extend_date = OverflowError THEN "ineligible"
                      ELSE IF DateLess(today, can_extend_date) THEN "ineligible"
                      ELSE "eligible"

\* variant: today compared with expiry_date instead of can_extend_date
GateDecisionOffByOne(expiry_text, today) ==
    IF expiry_text = NoneSeq THEN "skipped"
    ELSE LET expiry_date == strptime(expiry_text)
         IN  IF expiry_date = ValueError THEN "raised"
             ELSE IF DateLess(today, expiry_date) THEN "ineligible"
             ELSE "eligible"

GateDecision(expiry_text, today) ==
    IF expiry_text = NoneSeq THEN "skipped"
    ELSE LET expiry_date == strptime(expiry_text)
         IN  IF expiry_date = ValueError THEN "raised"
             ELSE LET can_extend_date == MinusOneDay(expiry_date)
                  IN  IF can_extend_date = OverflowError THEN "raised"
                      ELSE IF DateLess(today, can_extend_date) THEN "ineligible"
                      ELSE "eligible"

(***************************************************************************)
(* State.                                                                  *)
(***************************************************************************)
VARIABLES
    \* ---- the harness that applies _validate_code to a code
    v_code,            \* the code
    v_result,          \* "none" before the call, then "True" or "False"
    \* ---- CaptchaSolver.solve
    ocr_pc,            \* "idle", "post" (in the while loop), "done"
    retry_count,       \* the local retry_count
    ocr_result,        \* the value returned: a code or NoneSeq
    ocr_calls,         \* requests sent to the OCR service
    ocr_k,             \* environment: the service fails this many times, then succeeds
    ocr_last,          \* environment: the kind of the last response (ResponseClass)
    ocr_text,          \* environment: the body the returned code was taken from
    ocr_later,         \* environment: a later run of digits of the last body validates
    \* ---- TurnstileSolver.solve
    api_key,           \* Config.YESCAPTCHA_API_KEY
    ts_pc,             \* "idle", "call", "create", "loop", "poll", "done"
    ts_max_wait,       \* the parameter max_wait
    ts_elapsed,        \* seconds since start_time (0 outside the polling loop)
    ts_result,         \* the value returned: a token, or None
    ts_creates,        \* createTask requests sent
    ts_polls,          \* getTaskResult requests sent
    ts_error_at,       \* the request (1 = createTask, n+1 = n-th poll) that reported errorId != 0; 0 if none
    \* ---- XServerVPSRenewal.complete_turnstile_verification
    ctv_pc,            \* "idle", "detect", "solving", "manual", "wait", "done"
    ctv_i,             \* the loop variable i of the wait loop (0 outside the loop)
    ctv_result,        \* "none" before the return, then "True" or "False"
    ctv_via,           \* the return True taken: "none", "no_widget", "injected", "verified", "final"
    cf_field,          \* the page's hidden cf-turnstile-response field: "absent", "empty", or its value
    cf_success,        \* the page shows a success text or a checked widget
    \* ---- XServerVPSRenewal.run, open_extend, submit_extend
    pc,                \* where run() is
    renewal_status,
    old_expiry_time,
    new_expiry_time,
    error_message,
    today_jst,         \* the date the gate read, NoDate before
    gate,              \* what the gate decided, "none" before
    first_expiry,      \* the expiry text captured by the first get_expiry
    strategies,        \* the surface-opening strategies attempted, in order
    opened_by,         \* the strategy that opened the form, "none" if none did
    direct_page,       \* what the visit of the extend URL gave, "none" before it
    results,           \* the markers of the page after each submission
    fills,             \* times a code was filled into the form
    cache_count,       \* calls of save_cache
    readme_count,      \* calls of generate_readme that wrote the report
    readme_calls,      \* calls of generate_readme
    notes,             \* the calls of Notifier.notify, in order
    TELEGRAM_BOT_TOKEN, \* Config: None (not in the environment), "" or a value
    TELEGRAM_CHAT_ID,
    tg_posts,          \* environment: the requests sent to the Telegram API
    tg_last,           \* environment: how the last request ended, "none" before
    escaped,           \* an exception left run()
    acquired,          \* resources acquired by setup_browser
    released,          \* resources released by the finally clause
    logins,            \* calls of login
    fetches,           \* calls of get_expiry
    report             \* the section generate_readme last wrote, "none" before

vars_validate == <<v_code, v_result>>
vars_ocr == <<ocr_pc, retry_count, ocr_result, ocr_calls, ocr_k, ocr_last, ocr_text,
              ocr_later>>
vars_ts == <<api_key, ts_pc, ts_max_wait, ts_elapsed, ts_result, ts_creates,
             ts_polls, ts_error_at>>
vars_ctv == <<ctv_pc, ctv_i, ctv_result, ctv_via, cf_field, cf_success>>
vars_run == <<pc, renewal_status, old_expiry_time, new_expiry_time, error_message,
              today_jst, gate, first_expiry, strategies, opened_by, direct_page, results, fills,
              cache_count, readme_count, readme_calls, notes, tg_posts, tg_last,
              escaped,
              acquired, released, logins, fetches, report>>
vars_config == <<TELEGRAM_BOT_TOKEN, TELEGRAM_CHAT_ID>>
vars == <<vars_config, vars_validate, vars_ocr, vars_ts, vars_ctv, vars_run>>

NoDate == [y |-> 0, m |-> 0, d |-> 0]
PyBool(b) == IF b THEN "True" ELSE "False"

\* the state after construction (XServerVPSRenewal.__init__, lines 253-265)
InitValidate == v_code = <<>> /\ v_result = "none"
InitConfig == TELEGRAM_BOT_TOKEN = "TOKEN" /\ TELEGRAM_CHAT_ID = "CHAT"
InitOcr ==
    /\ ocr_pc = "idle" /\ retry_count = 0 /\ ocr_result = NoneSeq
    /\ ocr_calls = 0 /\ ocr_k = 0 /\ ocr_last = "none" /\ ocr_text = <<>>
    /\ ocr_later = FALSE
InitTs ==
    /\ ts_pc = "idle" /\ ts_max_wait = 0 /\ ts_elapsed = 0 /\ ts_result = None
    /\ ts_creates = 0 /\ ts_polls = 0 /\ ts_error_at = 0
InitCtv ==
    /\ ctv_pc = "idle" /\ ctv_i = 0 /\ ctv_result = "none" /\ ctv_via = "none"
    /\ cf_field = "absent" /\ cf_success = FALSE
InitRun ==
    /\ renewal_status = "Unknown"
    /\ old_expiry_time = NoneSeq
    /\ new_expiry_time = NoneSeq
    /\ error_message = None
    /\ today_jst = NoDate /\ gate = "none" /\ first_expiry = NoneSeq
    /\ strategies = <<>> /\ opened_by = "none" /\ direct_page = "none"
    /\ results = <<>> /\ fills = 0
    /\ cache_count = 0 /\ readme_count = 0 /\ readme_calls = 0
    /\ notes = <<>> /\ tg_posts = 0 /\ tg_last = "none" /\ escaped = FALSE
    /\ acquired = {} /\ released = {}
    /\ logins = 0 /\ fetches = 0 /\ report = "none"

(***************************************************************************)
(* CaptchaSolver.solve (lines 130-179).                                    *)
(*                                                                         *)
(* A response of the OCR service is <<kind, text>>:                        *)
(*   "error"   session.post raised (connection error, the 20 s timeout)    *)
(*   "not_ok"  a status for which resp.ok is false                         *)
(*   "text"    a body, text                                                *)
(***************************************************************************)
max_retries == 3

\* the bodies the service is tried with: on its own, and in a whole run
OcrTexts ==
    StringsUpTo(Alphabet, MaxTextLen) \cup StringsUpTo({"1", "2"}, MaxDigitRun)
RunTexts ==
    { <<"1", "2", "3", "4">>, <<"1", "1", "1", "1">>, <<"a", "b">>,
      <<"1", "2", " ", "3", "4", "5", "6">> }

Responses(texts) ==
    {<<"error", <<>>>>, <<"not_ok", <<>>>>} \cup {<<"text", t>> : t \in texts}
OcrResponses == Responses(OcrTexts)
RunResponses == Responses(RunTexts)

\* lines 152-166: the code taken from a body, NoneSeq where line 166 raises
\* variant: the first run of digits returned without _validate_code
ExtractFirstRunNoValidation(text) ==
    LET code == strip(text)
    IN  IF code # <<>> /\ Len(code) >= 4
        THEN LET numbers == findall_digits(code)
             IN  IF numbers # <<>> THEN Prefix(numbers[1], 6) ELSE NoneSeq
        ELSE NoneSeq

\* variant: the first run of digits that validates is taken
ExtractAnyValidRun(text) ==
    LET code == strip(text)
    IN  IF code # <<>> /\ Len(code) >= 4
        THEN LET numbers == findall_digits(code)
                 good == {i \in 1..Len(numbers) : _validate_code(Prefix(numbers[i], 6))}
             IN  IF good # {} THEN Prefix(numbers[Min(good)], 6) ELSE NoneSeq
        ELSE NoneSeq

ExtractCode(text) ==
    LET code == strip(text)
    IN  IF code # <<>> /\ Len(code) >= 4
        THEN LET numbers == findall_digits(code)
             IN  IF numbers # <<>>
                 THEN LET c == Prefix(numbers[1], 6)
                      IN  IF _validate_code(c) THEN c ELSE NoneSeq
                 ELSE NoneSeq
        ELSE NoneSeq

\* what one pass of the while loop returns for a response: a code, or NoneSeq
\* where the pass raises (lines 149-150, 166, or session.post itself)
AttemptResult(resp) ==
    IF resp[1] = "text" THEN ExtractCode(resp[2]) ELSE NoneSeq

\* Environment: the response universe split by what the service would have to
\* send for the call to count as a success: a body whose first run of digits,
\* cut to 6, is 4 to 6 digits, not all the same.
FirstDigitRun(t) ==
    LET ds == {i \in 1..Len(t) : t[i] \in Digits}
    IN  IF ds = {} THEN <<>>
        ELSE LET a == Min(ds)
                 b == Max({j \in a..Len(t) : \A k \in a..j : t[k] \in Digits})
             IN  SubSeq(t, a, b)
IsPlausibleCode(c) ==
    /\ c # NoneSeq
    /\ Len(c) \in 4..6
    /\ \A i \in 1..Len(c) : c[i] \in Digits
    /\ \E i, j \in 1..Len(c) : c[i] # c[j]
GoodResponse(resp) ==
    resp[1] = "text" /\ IsPlausibleCode(Prefix(FirstDigitRun(resp[2]), 6))

\* Environment: the body has a second or later run of digits that, cut to 6,
\* would pass _validate_code
LaterRunValidates(resp) ==
    /\ resp[1] = "text"
    /\ LET numbers == findall_digits(strip(resp[2]))
       IN  \E i \in 2..Len(numbers) : _validate_code(Prefix(numbers[i], 6))

ResponseClass(resp) ==
    IF resp[1] # "text" THEN resp[1]
    ELSE IF FirstDigitRun(resp[2]) = <<>> THEN "no_digits"
    ELSE IF GoodResponse(resp) THEN "valid" ELSE "invalid_value"

\* One pass of the while loop (lines 140-174): the request, then either the
\* return of the code or the except clause.
\* variant: the loop and the except clause allow one attempt more
CaptchaPostLoopsOnce(R) ==
    /\ ocr_pc = "post"
    /\ \E resp \in {r \in R : GoodResponse(r) <=> (ocr_calls >= ocr_k)} :
         /\ ocr_calls' = ocr_calls + 1
         /\ ocr_last' = ResponseClass(resp)
         /\ ocr_later' = LaterRunValidates(resp)
         /\ LET code == AttemptResult(resp)
            IN  IF code # NoneSeq
                THEN /\ ocr_result' = code /\ ocr_pc' = "done" /\ ocr_text' = resp[2]
                     /\ UNCHANGED retry_count
                ELSE /\ retry_count' = retry_count + 1
                     /\ ocr_text' = <<>>
                     /\ ocr_result' = NoneSeq
                     /\ ocr_pc' = IF retry_count' >= max_retries + 1 THEN "done" ELSE "post"
    /\ UNCHANGED <<ocr_k, vars_config, vars_validate, vars_ts, vars_ctv, vars_run>>

CaptchaPost(R) ==
    /\ ocr_pc = "post"
    /\ retry_count < max_retries
    /\ \E resp \in {r \in R : GoodResponse(r) <=> (ocr_calls >= ocr_k)} :
         /\ ocr_calls' = ocr_calls + 1
         /\ ocr_last' = ResponseClass(resp)
         /\ ocr_later' = LaterRunValidates(resp)
         /\ LET code == AttemptResult(resp)
            IN  IF code # NoneSeq
                THEN /\ ocr_result' = code /\ ocr_pc' = "done" /\ ocr_text' = resp[2]
                     /\ UNCHANGED retry_count
                ELSE /\ retry_count' = retry_count + 1
                     /\ ocr_text' = <<>>
                     /\ ocr_result' = NoneSeq
                     /\ ocr_pc' = IF retry_count' >= max_retries THEN "done" ELSE "post"
    /\ UNCHANGED <<ocr_k, vars_config, vars_validate, vars_ts, vars_ctv, vars_run>>

(***************************************************************************)
(* TurnstileSolver.solve (lines 191-247).  Time is in seconds.             *)
(***************************************************************************)
poll_interval == 5
poll_timeout == 20
ApiKeys == {None, "", "KEY"}
Token == "TOKEN"

\* what createTask can do: raise (connection, timeout, no JSON), report
\* errorId != 0, or return a task id
CreateOutcomes == {"raise", "error", "ok"}
\* what getTaskResult can do: raise, report errorId != 0, status "ready" with a
\* token, status "ready" without one, any other status
PollOutcomes == {"raise", "error", "token", "ready_no_token", "processing"}

\* lines 192-194: no key, no call
\* variant: the key is not tested
TsCallIgnoresKey ==
    /\ ts_pc = "call"
    /\ ts_pc' = "create"
    /\ UNCHANGED <<api_key, ts_max_wait, ts_elapsed, ts_result, ts_creates, ts_polls,
                   ts_error_at, vars_config, vars_validate, vars_ocr, vars_ctv, vars_run>>

TsCall ==
    /\ ts_pc = "call"
    /\ IF api_key \in {None, ""}
       THEN ts_result' = None /\ ts_pc' = "done"
       ELSE ts_pc' = "create" /\ UNCHANGED ts_result
    /\ UNCHANGED <<api_key, ts_max_wait, ts_elapsed, ts_creates, ts_polls,
                   ts_error_at, vars_config, vars_validate, vars_ocr, vars_ctv, vars_run>>

\* lines 211-221: createTask; start_time is taken once the task exists
TsCreateTask ==
    /\ ts_pc = "create"
    /\ ts_creates' = ts_creates + 1
    /\ \E out \in CreateOutcomes :
         CASE out = "ok" ->
                /\ ts_pc' = "loop" /\ ts_elapsed' = 0
                /\ UNCHANGED <<ts_result, ts_error_at>>
           [] out = "error" ->                       \* line 215, then 245-247
                /\ ts_error_at' = ts_creates' + ts_polls
                /\ ts_result' = None /\ ts_pc' = "done"
                /\ UNCHANGED ts_elapsed
           [] out = "raise" ->                       \* lines 245-247
                /\ ts_result' = None /\ ts_pc' = "done"
                /\ UNCHANGED <<ts_elapsed, ts_error_at>>
    /\ UNCHANGED <<api_key, ts_max_wait, ts_polls,
                   vars_config, vars_validate, vars_ocr, vars_ctv, vars_run>>

\* lines 222-223 and 242-243: the loop test, then the sleep before the poll
\* variant: the loop does not test the budget
TsLoopNoBudget ==
    /\ ts_pc = "loop"
    /\ ts_elapsed' = ts_elapsed + poll_interval /\ ts_pc' = "poll"
    /\ UNCHANGED <<api_key, ts_max_wait, ts_creates, ts_polls, ts_error_at, ts_result,
                   vars_config, vars_validate, vars_ocr, vars_ctv, vars_run>>

TsLoop ==
    /\ ts_pc = "loop"
    /\ IF ts_elapsed < ts_max_wait
       THEN /\ ts_elapsed' = ts_elapsed + poll_interval /\ ts_pc' = "poll"
            /\ UNCHANGED ts_result
       ELSE /\ ts_result' = None /\ ts_pc' = "done" /\ ts_elapsed' = 0
    /\ UNCHANGED <<api_key, ts_max_wait, ts_creates, ts_polls, ts_error_at,
                   vars_config, vars_validate, vars_ocr, vars_ctv, vars_run>>

\* lines 224-240: one getTaskResult request that takes d seconds, d in D,
\* and ends in one of Outs
\* variant: errorId != 0 on a poll is taken as "not ready yet"
TsPollRetriesOnError(D, Outs) ==
    /\ ts_pc = "poll"
    /\ ts_polls' = ts_polls + 1
    /\ \E d \in D, out \in Outs :
         CASE out = "token" ->
                /\ ts_result' = Token /\ ts_pc' = "done" /\ ts_elapsed' = 0
                /\ UNCHANGED ts_error_at
           [] out \in {"ready_no_token", "processing"} ->
                /\ ts_pc' = "loop" /\ ts_elapsed' = ts_elapsed + d
                /\ UNCHANGED <<ts_result, ts_error_at>>
           [] out = "error" ->
                /\ ts_error_at' = ts_creates + ts_polls'
                /\ ts_pc' = "loop" /\ ts_elapsed' = ts_elapsed + d
                /\ UNCHANGED ts_result
           [] out = "raise" ->
                /\ ts_result' = None /\ ts_pc' = "done" /\ ts_elapsed' = 0
                /\ UNCHANGED ts_error_at
    /\ UNCHANGED <<api_key, ts_max_wait, ts_creates,
                   vars_config, vars_validate, vars_ocr, vars_ctv, vars_run>>

TsPoll(D, Outs) ==
    /\ ts_pc = "poll"
    /\ ts_polls' = ts_polls + 1
    /\ \E d \in D, out \in Outs :
         CASE out = "token" ->                       \* lines 233-238
                /\ ts_result' = Token /\ ts_pc' = "done" /\ ts_elapsed' = 0
                /\ UNCHANGED ts_error_at
           [] out \in {"ready_no_token", "processing"} ->
                /\ ts_pc' = "loop" /\ ts_elapsed' = ts_elapsed + d
                /\ UNCHANGED <<ts_result, ts_error_at>>
           [] out = "error" ->                       \* line 231, then 245-247
                /\ ts_error_at' = ts_creates + ts_polls'
                /\ ts_result' = None /\ ts_pc' = "done" /\ ts_elapsed' = 0
           [] out = "raise" ->                       \* lines 245-247
                /\ ts_result' = None /\ ts_pc' = "done" /\ ts_elapsed' = 0
                /\ UNCHANGED ts_error_at
    /\ UNCHANGED <<api_key, ts_max_wait, ts_creates,
                   vars_config, vars_validate, vars_ocr, vars_ctv, vars_run>>

\* TurnstileSolver.solve on its own: any key, either wait budget the script
\* uses (line 880 passes 90, lines 191 and 550 default to 120)
max_wait_submit == 90
max_wait_default == 120
\* how long a poll request can take: anything up to its timeout
PollSeconds == 0..poll_timeout
InitSpecTurnstile ==
    /\ InitConfig /\ InitValidate /\ InitOcr
    /\ api_key \in ApiKeys
    /\ ts_pc = "call" /\ ts_max_wait \in {max_wait_submit, max_wait_default}
    /\ ts_elapsed = 0 /\ ts_result = None
    /\ ts_creates = 0 /\ ts_polls = 0 /\ ts_error_at = 0
    /\ InitCtv /\ InitRun /\ pc = "idle"
NextTurnstile ==
    \/ TsCall
    \/ TsCreateTask
    \/ TsLoop
    \/ TsPoll(PollSeconds, PollOutcomes)
SpecTurnstile == InitSpecTurnstile /\ [][NextTurnstile]_vars

(***************************************************************************)
(* XServerVPSRenewal.complete_turnstile_verification (lines 550-855), as   *)
(* submit_extend calls it (max_wait = 90).                                 *)
(*                                                                         *)
(* The page: cf_field is the hidden cf-turnstile-response field ("absent", *)
(* "empty", or the value it holds: the solver's token or "WIDGET", a value *)
(* the widget wrote itself); cf_success is a success text or a checked     *)
(* widget on the page.  The page is read by page.evaluate, which may raise.*)
(***************************************************************************)
WidgetToken == "WIDGET"

\* lines 556-581: look for the widget and its sitekey; with a sitekey, call
\* TurnstileSolver.solve
CtvDetect ==
    /\ ctv_pc = "detect"
    /\ \E out \in {"raise", "no_widget", "sitekey", "no_sitekey"} :
         CASE out = "raise" ->                       \* lines 853-855
                /\ ctv_result' = "False" /\ ctv_pc' = "done"
                /\ UNCHANGED <<ctv_via, vars_ts>>
           [] out = "no_widget" ->                   \* lines 570-572
                /\ ctv_result' = "True" /\ ctv_via' = "no_widget" /\ ctv_pc' = "done"
                /\ UNCHANGED vars_ts
           [] out = "sitekey" ->                     \* lines 579-581
                /\ ctv_pc' = "solving"
                /\ ts_pc' = "call" /\ ts_max_wait' = max_wait_submit
                /\ UNCHANGED <<ctv_result, ctv_via, api_key, ts_elapsed, ts_result,
                               ts_creates, ts_polls, ts_error_at>>
           [] out = "no_sitekey" ->                  \* token stays None
                /\ ctv_pc' = "manual"
                /\ UNCHANGED <<ctv_result, ctv_via, vars_ts>>
    /\ UNCHANGED <<ctv_i, cf_field, cf_success, vars_config, vars_validate, vars_ocr, vars_run>>

\* lines 583-612: with a token, write it into the hidden field; the script
\* returns True when the field exists
\* variant: True is returned whatever the injection script returned
CtvInjectIgnoresInjected ==
    /\ ctv_pc = "solving" /\ ts_pc = "done"
    /\ IF ts_result # None
       THEN \E out \in {"raise", "present", "absent"} :
              CASE out = "raise" ->
                     /\ ctv_result' = "False" /\ ctv_pc' = "done"
                     /\ UNCHANGED <<ctv_via, cf_field>>
                [] out = "present" ->
                     /\ cf_field' = ts_result
                     /\ ctv_result' = "True" /\ ctv_via' = "injected" /\ ctv_pc' = "done"
                [] out = "absent" ->
                     /\ cf_field' = "absent"
                     /\ ctv_result' = "True" /\ ctv_via' = "injected" /\ ctv_pc' = "done"
       ELSE ctv_pc' = "manual" /\ UNCHANGED <<ctv_result, ctv_via, cf_field>>
    /\ UNCHANGED <<ctv_i, cf_success, vars_config, vars_validate, vars_ocr, vars_ts, vars_run>>

CtvInject ==
    /\ ctv_pc = "solving" /\ ts_pc = "done"
    /\ IF ts_result # None
       THEN \E out \in {"raise", "present", "absent"} :
              CASE out = "raise" ->                  \* lines 853-855
                     /\ ctv_result' = "False" /\ ctv_pc' = "done"
                     /\ UNCHANGED <<ctv_via, cf_field>>
                [] out = "present" ->                \* lines 588-589, 608-610
                     /\ cf_field' = ts_result
                     /\ ctv_result' = "True" /\ ctv_via' = "injected" /\ ctv_pc' = "done"
                [] out = "absent" ->                 \* lines 611-612
                     /\ cf_field' = "absent"
                     /\ ctv_pc' = "manual"
                     /\ UNCHANGED <<ctv_result, ctv_via>>
       ELSE ctv_pc' = "manual" /\ UNCHANGED <<ctv_result, ctv_via, cf_field>>
    /\ UNCHANGED <<ctv_i, cf_success, vars_config, vars_validate, vars_ocr, vars_ts, vars_run>>

\* lines 614-759: the three click methods and the scrolling; each is wrapped
\* in its own try/except and none changes the script's state
CtvManual ==
    /\ ctv_pc = "manual"
    /\ ctv_pc' = "wait" /\ ctv_i' = 0
    /\ UNCHANGED <<ctv_result, ctv_via, cf_field, cf_success,
                   vars_config, vars_validate, vars_ocr, vars_ts, vars_run>>

\* lines 761-799: one pass of the wait loop: sleep a second, read the page
CtvWait ==
    /\ ctv_pc = "wait" /\ ctv_i < max_wait_submit
    /\ \/ /\ ctv_result' = "False" /\ ctv_pc' = "done"     \* evaluate raised
          /\ ctv_i' = 0
          /\ UNCHANGED <<ctv_via, cf_field, cf_success>>
       \/ \E f \in {"absent", "empty", WidgetToken}, s \in BOOLEAN :
            /\ cf_field' = f /\ cf_success' = s
            /\ IF f \notin {"absent", "empty"} \/ s          \* verified
               THEN /\ ctv_result' = "True" /\ ctv_via' = "verified" /\ ctv_pc' = "done"
                    /\ ctv_i' = 0
               ELSE /\ ctv_i' = ctv_i + 1
                    /\ UNCHANGED <<ctv_result, ctv_via, ctv_pc>>
    /\ UNCHANGED <<vars_config, vars_validate, vars_ocr, vars_ts, vars_run>>

\* lines 832-851: the loop ran out; one last read of the hidden field
CtvFinal ==
    /\ ctv_pc = "wait" /\ ctv_i = max_wait_submit
    /\ ctv_pc' = "done" /\ ctv_i' = 0
    /\ \/ /\ ctv_result' = "False"                          \* evaluate raised
          /\ UNCHANGED <<ctv_via, cf_field>>
       \/ \E f \in {"absent", "empty", WidgetToken} :
            /\ cf_field' = f
            /\ IF f \notin {"absent", "empty"}
               THEN ctv_result' = "True" /\ ctv_via' = "final"
               ELSE ctv_result' = "False" /\ UNCHANGED ctv_via
    /\ UNCHANGED <<cf_success, vars_config, vars_validate, vars_ocr, vars_ts, vars_run>>

(***************************************************************************)
(* XServerVPSRenewal: generate_readme, save_cache, Notifier.notify as the  *)
(* steps of run() use them.                                                *)
(*                                                                         *)
(* generate_readme (lines 1044-1075) opens and writes README.md with no    *)
(* try around it: the write succeeds or raises.  save_cache (lines         *)
(* 277-288) catches its own write error.  Notifier.notify (lines 75-100)   *)
(* catches its own errors.  A notification is <<subject, message>>.        *)
(***************************************************************************)
Resources == <<"pw", "browser", "context", "page">>     \* in the order acquired
CloseOrder == <<"page", "context", "browser", "pw">>    \* lines 1180-1187

SeqRange(q) == {q[i] : i \in 1..Len(q)}

ExceptionText == "str(e)"
\* str(e) of the error the page script of lines 889-901 throws
NoImageText == "no captcha image found"

\* lines 1052-1068: the section of the report for a status
\* variant: no section of its own for Unexpired
ReadmeSectionNoUnexpired(status) ==
    IF status = "Success" THEN "success" ELSE "failed"

ReadmeSection(status) ==
    IF status = "Success" THEN "success"
    ELSE IF status = "Unexpired" THEN "unexpired"
    ELSE "failed"

\* Notifier (lines 75-100).  all([...]) of line 78 is false when one of the
\* two settings is None or the empty string.  How a request ends:
\*   "ok"      status 200
\*   "non200"  another status (logged, line 93)
\*   "raise"   the session or the post raised (caught and logged, line 95)
Falsy == {None, ""}
TelegramOutcomes == {"ok", "non200", "raise"}

\* variant: the request is sent without looking at the settings
send_telegram_always(outs) ==
    /\ tg_posts' = tg_posts + 1
    /\ tg_last' \in outs

send_telegram(outs) ==
    IF TELEGRAM_BOT_TOKEN \in Falsy \/ TELEGRAM_CHAT_ID \in Falsy
    THEN UNCHANGED <<tg_posts, tg_last>>                      \* line 79
    ELSE /\ tg_posts' = tg_posts + 1
         /\ tg_last' \in outs

\* lines 97-100: a notification is <<subject, message>>; the subject is not used
notify(note, outs) ==
    /\ notes' = Append(notes, note)
    /\ send_telegram(outs)

\* Ends a step that reports and returns: generate_readme, then notify, then
\* the finally clause; a failed write leaves run() through the finally clause.
ReportAndReturn(write_ok, note) ==
    /\ readme_calls' = readme_calls + 1
    /\ IF write_ok
       THEN /\ readme_count' = readme_count + 1
            /\ report' = ReadmeSection(renewal_status')
            /\ notify(note, TelegramOutcomes)
            /\ UNCHANGED escaped
       ELSE /\ escaped' = TRUE
            /\ UNCHANGED <<readme_count, report, notes, tg_posts, tg_last>>
    /\ pc' = "finally"

(***************************************************************************)
(* run(), lines 1084-1096: the browser, then the login.                    *)
(***************************************************************************)
\* setup_browser (lines 301-375): acquires pw, browser, context, page in this
\* order; any step may raise, also one after the page exists
RunSetupBrowser ==
    /\ pc = "setup"
    /\ \E n \in 0..Len(Resources), ok \in BOOLEAN :
         /\ ok => n = Len(Resources)
         /\ acquired' = {Resources[i] : i \in 1..n}
         /\ IF ok
            THEN /\ pc' = "login"
                 /\ UNCHANGED <<renewal_status, error_message, readme_calls,
                                readme_count, report, notes, tg_posts, tg_last, escaped>>
            ELSE /\ error_message' = ExceptionText           \* line 374
                 /\ renewal_status' = "Failed"               \* line 1086
                 /\ \E w \in BOOLEAN :
                      ReportAndReturn(w, <<"failed", "browser">>)
    /\ UNCHANGED <<old_expiry_time, new_expiry_time, today_jst, gate, first_expiry,
                   strategies, opened_by, direct_page, results, fills, cache_count, released, logins, fetches,
                   vars_config, vars_validate, vars_ocr, vars_ts, vars_ctv>>

\* variant: run() does not return when login returned False
RunLoginGoesOn ==
    /\ pc = "login"
    /\ logins' = logins + 1
    /\ \E out \in {"ok", "wrong_page", "raise"} :
         IF out = "ok"
         THEN /\ pc' = "get_expiry"
              /\ UNCHANGED <<renewal_status, error_message, readme_calls,
                             readme_count, report, notes, tg_posts, tg_last, escaped>>
         ELSE /\ error_message' = IF out = "wrong_page" THEN "login failed"
                                  ELSE "login error"          \* lines 403, 407
              /\ renewal_status' = "Failed"                   \* line 1093
              /\ pc' = "get_expiry"
              /\ UNCHANGED <<readme_calls, readme_count, report, notes, tg_posts, tg_last, escaped>>
    /\ UNCHANGED <<old_expiry_time, new_expiry_time, today_jst, gate, first_expiry,
                   strategies, opened_by, direct_page, results, fills, cache_count, acquired, released, fetches,
                   vars_config, vars_validate, vars_ocr, vars_ts, vars_ctv>>

\* login (lines 378-408)
RunLogin ==
    /\ pc = "login"
    /\ logins' = logins + 1
    /\ \E out \in {"ok", "wrong_page", "raise"} :
         IF out = "ok"
         THEN /\ pc' = "get_expiry"
              /\ UNCHANGED <<renewal_status, error_message, readme_calls,
                             readme_count, report, notes, tg_posts, tg_last, escaped>>
         ELSE /\ error_message' = IF out = "wrong_page" THEN "login failed"
                                  ELSE "login error"          \* lines 403, 407
              /\ renewal_status' = "Failed"                   \* line 1093
              /\ \E w \in BOOLEAN :
                   ReportAndReturn(w, <<"failed", "login">>)
    /\ UNCHANGED <<old_expiry_time, new_expiry_time, today_jst, gate, first_expiry,
                   strategies, opened_by, direct_page, results, fills, cache_count, acquired, released, fetches,
                   vars_config, vars_validate, vars_ocr, vars_ts, vars_ctv>>

(***************************************************************************)
(* get_expiry (lines 411-444) and the eligibility gate (lines 1101-1138).  *)
(*                                                                         *)
(* The page's match is <<year, month, day>>, each a string of digits as    *)
(* the pattern (\d{4})年(\d{1,2})月(\d{1,2})日 takes them, the digits      *)
(* given as numbers.                                                       *)
(***************************************************************************)
\* what get_expiry leaves in old_expiry_time: the page gave a match, or it
\* gave none or raised (old_expiry_time is then kept)
ExpiryAfter(matches, current) == {FormatExpiry(m) : m \in matches} \cup {current}

\* variant: run() returns when get_expiry found no expiry
RunGetExpiryEndsRun(matches) ==
    /\ pc = "get_expiry"
    /\ \E e \in ExpiryAfter(matches, old_expiry_time) :
         /\ old_expiry_time' = e
         /\ first_expiry' = e
    /\ fetches' = fetches + 1
    /\ pc' = IF old_expiry_time' = NoneSeq THEN "finally" ELSE "gate"
    /\ UNCHANGED <<renewal_status, new_expiry_time, error_message, today_jst, gate,
                   strategies, opened_by, direct_page, results, fills, cache_count, readme_count, report,
                   readme_calls, notes, tg_posts, tg_last, escaped, acquired, released, logins,
                   vars_config, vars_validate, vars_ocr, vars_ts, vars_ctv>>

RunGetExpiry(matches) ==
    /\ pc = "get_expiry"
    /\ \E e \in ExpiryAfter(matches, old_expiry_time) :
         /\ old_expiry_time' = e
         /\ first_expiry' = e
    /\ fetches' = fetches + 1
    /\ pc' = "gate"
    /\ UNCHANGED <<renewal_status, new_expiry_time, error_message, today_jst, gate,
                   strategies, opened_by, direct_page, results, fills, cache_count, readme_count, report,
                   readme_calls, notes, tg_posts, tg_last, escaped, acquired, released, logins,
                   vars_config, vars_validate, vars_ocr, vars_ts, vars_ctv>>

\* lines 1102-1138.  In the ineligible branch save_cache, generate_readme and
\* notify run inside the try: a failed write of the report is caught by the
\* except of line 1137 and run() goes on to step 4.
RunGate(todays) ==
    /\ pc = "gate"
    /\ \E today \in todays :
         LET decision == GateDecision(old_expiry_time, today)
         IN  /\ gate' = decision
             /\ today_jst' = IF decision = "skipped" THEN today_jst ELSE today
             /\ IF decision = "ineligible"
                THEN /\ renewal_status' = "Unexpired"         \* line 1119
                     /\ error_message' = None                 \* line 1120
                     /\ cache_count' = cache_count + 1        \* line 1123
                     /\ readme_calls' = readme_calls + 1      \* line 1124
                     /\ \E w \in BOOLEAN :
                          IF w
                          THEN /\ readme_count' = readme_count + 1
                               /\ report' = ReadmeSection(renewal_status')
                               /\ notify(<<"not due yet", "gate">>, TelegramOutcomes)
                               /\ pc' = "finally"             \* line 1132
                          ELSE /\ pc' = "goto_detail"         \* lines 1137-1138
                               /\ UNCHANGED <<readme_count, report, notes, tg_posts, tg_last>>
                ELSE /\ pc' = "goto_detail"
                     /\ UNCHANGED <<renewal_status, error_message, cache_count,
                                    readme_calls, readme_count, report, notes, tg_posts, tg_last>>
    /\ UNCHANGED <<old_expiry_time, new_expiry_time, first_expiry, strategies, opened_by, direct_page,
                   results, fills, escaped, acquired, released, logins, fetches,
                   vars_config, vars_validate, vars_ocr, vars_ts, vars_ctv>>

(***************************************************************************)
(* run(), lines 1140-1158: the detail page, then open_extend (472-547).    *)
(***************************************************************************)
\* lines 1141-1144: page.goto is not inside any try of run(); click_update
\* (lines 447-469) catches everything
RunGotoDetail ==
    /\ pc = "goto_detail"
    /\ \/ pc' = "open_button" /\ UNCHANGED escaped
       \/ pc' = "finally" /\ escaped' = TRUE
    /\ UNCHANGED <<renewal_status, old_expiry_time, new_expiry_time, error_message,
                   today_jst, gate, first_expiry, strategies, opened_by, direct_page, results, fills,
                   cache_count, readme_count, report, readme_calls, notes, tg_posts, tg_last,
                   acquired, released, logins, fetches,
                   vars_config, vars_validate, vars_ocr, vars_ts, vars_ctv>>

\* lines 477-489: method 1, the button
\* variant: the link is tried whatever the button gave
OpenButtonGoesOn ==
    /\ pc = "open_button"
    /\ strategies' = Append(strategies, "button")
    /\ \E clicked \in BOOLEAN :
         /\ pc' = "open_link"
         /\ opened_by' = IF clicked THEN "button" ELSE opened_by
    /\ UNCHANGED <<direct_page, renewal_status, old_expiry_time, new_expiry_time, error_message,
                   today_jst, gate, first_expiry, results, fills,
                   cache_count, readme_count, report, readme_calls, notes, tg_posts, tg_last, escaped,
                   acquired, released, logins, fetches,
                   vars_config, vars_validate, vars_ocr, vars_ts, vars_ctv>>

OpenButton ==
    /\ pc = "open_button"
    /\ strategies' = Append(strategies, "button")
    /\ \E clicked \in BOOLEAN :
         /\ pc' = IF clicked THEN "sub_start" ELSE "open_link"
         /\ opened_by' = IF clicked THEN "button" ELSE opened_by
    /\ UNCHANGED <<direct_page, renewal_status, old_expiry_time, new_expiry_time, error_message,
                   today_jst, gate, first_expiry, results, fills,
                   cache_count, readme_count, report, readme_calls, notes, tg_posts, tg_last, escaped,
                   acquired, released, logins, fetches,
                   vars_config, vars_validate, vars_ocr, vars_ts, vars_ctv>>

\* lines 491-503: method 1b, the link
OpenLink ==
    /\ pc = "open_link"
    /\ strategies' = Append(strategies, "link")
    /\ \E clicked \in BOOLEAN :
         /\ pc' = IF clicked THEN "sub_start" ELSE "open_direct"
         /\ opened_by' = IF clicked THEN "link" ELSE opened_by
    /\ UNCHANGED <<direct_page, renewal_status, old_expiry_time, new_expiry_time, error_message,
                   today_jst, gate, first_expiry, results, fills,
                   cache_count, readme_count, report, readme_calls, notes, tg_posts, tg_last, escaped,
                   acquired, released, logins, fetches,
                   vars_config, vars_validate, vars_ocr, vars_ts, vars_ctv>>

\* lines 505-543: method 2, the extend URL.  What the visit gives:
\*   "raise"       goto or content raised
\*   "clicked"     the page names the action and one of the two clicks worked
\*   "click_fails" the page names the action and both clicks raised
\*   "not_open"    the page does not name the action and says the window is not open
\*   "other"       the page says neither
OpenDirect ==
    /\ pc = "open_direct"
    /\ strategies' = Append(strategies, "direct")
    /\ \E out \in {"raise", "clicked", "click_fails", "not_open", "other"} :
         /\ pc' = IF out = "clicked" THEN "sub_start" ELSE "not_opened"
         /\ opened_by' = IF out = "clicked" THEN "direct" ELSE opened_by
         /\ direct_page' = out
         /\ renewal_status' = IF out = "not_open" THEN "Unexpired"   \* line 536
                              ELSE renewal_status
    /\ UNCHANGED <<old_expiry_time, new_expiry_time, error_message,
                   today_jst, gate, first_expiry, results, fills,
                   cache_count, readme_count, report, readme_calls, notes, tg_posts, tg_last, escaped,
                   acquired, released, logins, fetches,
                   vars_config, vars_validate, vars_ocr, vars_ts, vars_ctv>>

\* lines 1148-1158: open_extend returned False
RunNotOpened ==
    /\ pc = "not_opened"
    /\ IF renewal_status = "Unexpired"
       THEN /\ UNCHANGED <<renewal_status, error_message>>
            /\ \E w \in BOOLEAN :
                 ReportAndReturn(w, <<"not due", "expiry">>)
       ELSE /\ renewal_status' = "Failed"
            /\ error_message' = "cannot open extend page"
            /\ \E w \in BOOLEAN :
                 ReportAndReturn(w, <<"failed", "cannot open extend page">>)
    /\ UNCHANGED <<old_expiry_time, new_expiry_time, today_jst, gate, first_expiry,
                   strategies, opened_by, direct_page, results, fills, cache_count, acquired, released, logins, fetches,
                   vars_config, vars_validate, vars_ocr, vars_ts, vars_ctv>>

(***************************************************************************)
(* submit_extend (lines 858-1041).  Every exception inside it is caught by *)
(* lines 1037-1041: Failed, error_message = str(e), return False.          *)
(***************************************************************************)
SubmitRaised ==
    /\ renewal_status' = "Failed"
    /\ error_message' = ExceptionText
    /\ pc' = "report"

\* lines 861-880: mouse moves and scrolling (errors ignored), then the
\* interactive challenge
SubmitStart ==
    /\ pc = "sub_start"
    /\ pc' = "sub_turnstile"
    /\ ctv_pc' = "detect"
    /\ UNCHANGED <<ctv_i, ctv_result, ctv_via, cf_field, cf_success,
                   renewal_status, old_expiry_time, new_expiry_time, error_message,
                   today_jst, gate, first_expiry, strategies, opened_by, direct_page, results, fills,
                   cache_count, readme_count, report, readme_calls, notes, tg_posts, tg_last, escaped,
                   acquired, released, logins, fetches,
                   vars_config, vars_validate, vars_ocr, vars_ts>>

\* variant: an unresolved interactive challenge ends submit_extend
SubmitImageStopsWhenUnsolved ==
    /\ pc = "sub_turnstile" /\ ctv_pc = "done"
    /\ \/ SubmitRaised /\ UNCHANGED vars_ocr               \* evaluate raised
       \/ ctv_result = "False" /\ SubmitRaised /\ UNCHANGED vars_ocr
       \/ /\ renewal_status' = "Failed"                     \* no image: the page
          /\ error_message' = NoImageText                   \* script throws
          /\ pc' = "report"
          /\ UNCHANGED vars_ocr
       \/ /\ ctv_result # "False"
          /\ pc' = "sub_ocr"
          /\ ocr_pc' = "post" /\ retry_count' = 0 /\ ocr_result' = NoneSeq
          /\ ocr_k' \in 0..MaxRunFail
          /\ UNCHANGED <<ocr_calls, ocr_last, ocr_text, ocr_later, renewal_status,
                          error_message>>
    /\ UNCHANGED <<old_expiry_time, new_expiry_time,
                   today_jst, gate, first_expiry, strategies, opened_by, direct_page, results, fills,
                   cache_count, readme_count, report, readme_calls, notes, tg_posts, tg_last, escaped,
                   acquired, released, logins, fetches,
                   vars_config, vars_validate, vars_ts, vars_ctv>>

\* variant: the image challenge is read without waiting for the interactive one
SubmitImageBeforeChallenge ==
    /\ pc = "sub_turnstile"
    /\ \/ SubmitRaised /\ UNCHANGED vars_ocr               \* evaluate raised
       \/ /\ renewal_status' = "Failed"                     \* no image: the page
          /\ error_message' = NoImageText                   \* script throws
          /\ pc' = "report"
          /\ UNCHANGED vars_ocr
       \/ /\ pc' = "sub_ocr"
          /\ ocr_pc' = "post" /\ retry_count' = 0 /\ ocr_result' = NoneSeq
          /\ ocr_k' \in 0..MaxRunFail
          /\ UNCHANGED <<ocr_calls, ocr_last, ocr_text, ocr_later, renewal_status,
                          error_message>>
    /\ UNCHANGED <<old_expiry_time, new_expiry_time,
                   today_jst, gate, first_expiry, strategies, opened_by, direct_page, results, fills,
                   cache_count, readme_count, report, readme_calls, notes, tg_posts, tg_last, escaped,
                   acquired, released, logins, fetches,
                   vars_config, vars_validate, vars_ts, vars_ctv>>

\* lines 882-911: whatever the interactive challenge returned, read the image
\* challenge.  The page script throws when there is no image or it has no
\* src, so evaluate either raises or returns a non-empty src: the branch of
\* lines 903-906 (Unexpired) needs an empty value and is never taken.
SubmitImage ==
    /\ pc = "sub_turnstile" /\ ctv_pc = "done"
    /\ \/ SubmitRaised /\ UNCHANGED vars_ocr               \* evaluate raised
       \/ /\ renewal_status' = "Failed"                     \* no image: the page
          /\ error_message' = NoImageText                   \* script throws
          /\ pc' = "report"
          /\ UNCHANGED vars_ocr
       \/ /\ pc' = "sub_ocr"
          /\ ocr_pc' = "post" /\ retry_count' = 0 /\ ocr_result' = NoneSeq
          /\ ocr_k' \in 0..MaxRunFail
          /\ UNCHANGED <<ocr_calls, ocr_last, ocr_text, ocr_later, renewal_status,
                          error_message>>
    /\ UNCHANGED <<old_expiry_time, new_expiry_time,
                   today_jst, gate, first_expiry, strategies, opened_by, direct_page, results, fills,
                   cache_count, readme_count, report, readme_calls, notes, tg_posts, tg_last, escaped,
                   acquired, released, logins, fetches,
                   vars_config, vars_validate, vars_ts, vars_ctv>>

\* variant: the code returned by the solver is not tested
SubmitFillWithoutCode ==
    /\ pc = "sub_ocr" /\ ocr_pc = "done"
    /\ IF FALSE
       THEN /\ renewal_status' = "Failed"
            /\ error_message' = "captcha recognition failed"
            /\ pc' = "report"
            /\ UNCHANGED fills
       ELSE \/ SubmitRaised /\ UNCHANGED fills               \* no input field
            \/ /\ fills' = fills + 1
               /\ pc' = "sub_click"
               /\ UNCHANGED <<renewal_status, error_message>>
    /\ UNCHANGED <<old_expiry_time, new_expiry_time,
                   today_jst, gate, first_expiry, strategies, opened_by, direct_page, results,
                   cache_count, readme_count, report, readme_calls, notes, tg_posts, tg_last, escaped,
                   acquired, released, logins, fetches,
                   vars_config, vars_validate, vars_ocr, vars_ts, vars_ctv>>

\* lines 911-939: no code, Failed; else fill the code into the form
SubmitFill ==
    /\ pc = "sub_ocr" /\ ocr_pc = "done"
    /\ IF ocr_result = NoneSeq
       THEN /\ renewal_status' = "Failed"
            /\ error_message' = "captcha recognition failed"
            /\ pc' = "report"
            /\ UNCHANGED fills
       ELSE \/ SubmitRaised /\ UNCHANGED fills               \* no input field
            \/ /\ fills' = fills + 1
               /\ pc' = "sub_click"
               /\ UNCHANGED <<renewal_status, error_message>>
    /\ UNCHANGED <<old_expiry_time, new_expiry_time,
                   today_jst, gate, first_expiry, strategies, opened_by, direct_page, results,
                   cache_count, readme_count, report, readme_calls, notes, tg_posts, tg_last, escaped,
                   acquired, released, logins, fetches,
                   vars_config, vars_validate, vars_ocr, vars_ts, vars_ctv>>

\* The page after a submission: which markers its html holds
Markers == {"error", "success", "both", "neither"}

\* lines 950-1002: the last look at the token (its result is only logged),
\* then the click on the submit button
SubmitClick ==
    /\ pc = "sub_click"
    /\ \/ SubmitRaised /\ UNCHANGED results     \* evaluate raised, or no button
       \/ \E m \in Markers :
            /\ results' = Append(results, m)
            /\ pc' = "sub_classify"
            /\ UNCHANGED <<renewal_status, error_message>>
    /\ UNCHANGED <<old_expiry_time, new_expiry_time,
                   today_jst, gate, first_expiry, strategies, opened_by, direct_page, fills,
                   cache_count, readme_count, report, readme_calls, notes, tg_posts, tg_last, escaped,
                   acquired, released, logins, fetches,
                   vars_config, vars_validate, vars_ocr, vars_ts, vars_ctv>>

\* lines 1004-1035: read the page and classify it; on success get_expiry is
\* called again and new_expiry_time is set from old_expiry_time
\* variant: get_expiry is not called after a success
SubmitClassifyNoRefetch(matches) ==
    /\ pc = "sub_classify"
    /\ \/ SubmitRaised /\ UNCHANGED <<old_expiry_time, new_expiry_time, fetches>>
       \/ LET m == results[Len(results)]
          IN  CASE m \in {"error", "both"} ->               \* lines 1007-1017
                     /\ renewal_status' = "Failed"
                     /\ error_message' = "wrong code or verification failed"
                     /\ pc' = "report"
                     /\ UNCHANGED <<old_expiry_time, new_expiry_time, fetches>>
                [] m = "success" ->                          \* lines 1020-1031
                     /\ renewal_status' = "Success"
                     /\ new_expiry_time' = old_expiry_time
                     /\ UNCHANGED <<old_expiry_time, fetches>>
                     /\ pc' = "report"
                     /\ UNCHANGED error_message
                [] m = "neither" ->                          \* lines 1033-1035
                     /\ renewal_status' = "Unknown"
                     /\ pc' = "report"
                     /\ UNCHANGED <<error_message, old_expiry_time, new_expiry_time, fetches>>
    /\ UNCHANGED <<today_jst, gate, first_expiry, strategies, opened_by, direct_page, results, fills,
                   cache_count, readme_count, report, readme_calls, notes, tg_posts, tg_last, escaped,
                   acquired, released, logins,
                   vars_config, vars_validate, vars_ocr, vars_ts, vars_ctv>>

\* variant: the success markers are looked for before the error markers
SubmitClassifySuccessFirst(matches) ==
    /\ pc = "sub_classify"
    /\ \/ SubmitRaised /\ UNCHANGED <<old_expiry_time, new_expiry_time, fetches>>
       \/ LET m == results[Len(results)]
          IN  CASE m = "error" ->
                     /\ renewal_status' = "Failed"
                     /\ error_message' = "wrong code or verification failed"
                     /\ pc' = "report"
                     /\ UNCHANGED <<old_expiry_time, new_expiry_time, fetches>>
                [] m \in {"success", "both"} ->
                     /\ renewal_status' = "Success"
                     /\ \E e \in ExpiryAfter(matches, old_expiry_time) :
                          old_expiry_time' = e /\ new_expiry_time' = e
                     /\ fetches' = fetches + 1
                     /\ pc' = "report"
                     /\ UNCHANGED error_message
                [] m = "neither" ->                          \* lines 1033-1035
                     /\ renewal_status' = "Unknown"
                     /\ pc' = "report"
                     /\ UNCHANGED <<error_message, old_expiry_time, new_expiry_time, fetches>>
    /\ UNCHANGED <<today_jst, gate, first_expiry, strategies, opened_by, direct_page, results, fills,
                   cache_count, readme_count, report, readme_calls, notes, tg_posts, tg_last, escaped,
                   acquired, released, logins,
                   vars_config, vars_validate, vars_ocr, vars_ts, vars_ctv>>

\* variant: the error markers are not looked for
SubmitClassifyNoErrorCheck(matches) ==
    /\ pc = "sub_classify"
    /\ \/ SubmitRaised /\ UNCHANGED <<old_expiry_time, new_expiry_time, fetches>>
       \/ LET m == results[Len(results)]
          IN  CASE m \in {"success", "both"} ->
                     /\ renewal_status' = "Success"
                     /\ \E e \in ExpiryAfter(matches, old_expiry_time) :
                          old_expiry_time' = e /\ new_expiry_time' = e
                     /\ fetches' = fetches + 1
                     /\ pc' = "report"
                     /\ UNCHANGED error_message
                [] m \in {"error", "neither"} ->
                     /\ renewal_status' = "Unknown"
                     /\ pc' = "report"
                     /\ UNCHANGED <<error_message, old_expiry_time, new_expiry_time, fetches>>
    /\ UNCHANGED <<today_jst, gate, first_expiry, strategies, opened_by, direct_page, results, fills,
                   cache_count, readme_count, report, readme_calls, notes, tg_posts, tg_last, escaped,
                   acquired, released, logins,
                   vars_config, vars_validate, vars_ocr, vars_ts, vars_ctv>>

SubmitClassify(matches) ==
    /\ pc = "sub_classify"
    /\ \/ SubmitRaised /\ UNCHANGED <<old_expiry_time, new_expiry_time, fetches>>
       \/ LET m == results[Len(results)]
          IN  CASE m \in {"error", "both"} ->               \* lines 1007-1017
                     /\ renewal_status' = "Failed"
                     /\ error_message' = "wrong code or verification failed"
                     /\ pc' = "report"
                     /\ UNCHANGED <<old_expiry_time, new_expiry_time, fetches>>
                [] m = "success" ->                          \* lines 1020-1031
                     /\ renewal_status' = "Success"
                     /\ \E e \in ExpiryAfter(matches, old_expiry_time) :
                          old_expiry_time' = e /\ new_expiry_time' = e
                     /\ fetches' = fetches + 1
                     /\ pc' = "report"
                     /\ UNCHANGED error_message
                [] m = "neither" ->                          \* lines 1033-1035
                     /\ renewal_status' = "Unknown"
                     /\ pc' = "report"
                     /\ UNCHANGED <<error_message, old_expiry_time, new_expiry_time, fetches>>
    /\ UNCHANGED <<today_jst, gate, first_expiry, strategies, opened_by, direct_page, results, fills,
                   cache_count, readme_count, report, readme_calls, notes, tg_posts, tg_last, escaped,
                   acquired, released, logins,
                   vars_config, vars_validate, vars_ocr, vars_ts, vars_ctv>>

(***************************************************************************)
(* run(), lines 1163-1190: the report, then the finally clause.            *)
(***************************************************************************)
RunReport ==
    /\ pc = "report"
    /\ cache_count' = cache_count + 1                        \* line 1164
    /\ UNCHANGED renewal_status
    /\ \E w \in BOOLEAN :
         ReportAndReturn(w,
            IF renewal_status = "Success" THEN <<"success", "new expiry">>
            ELSE IF renewal_status = "Unexpired" THEN <<"not due", "expiry">>
            ELSE <<"failed", "error message">>)
    /\ UNCHANGED <<old_expiry_time, new_expiry_time, error_message,
                   today_jst, gate, first_expiry, strategies, opened_by, direct_page, results, fills,
                   acquired, released, logins, fetches,
                   vars_config, vars_validate, vars_ocr, vars_ts, vars_ctv>>

\* lines 1179-1190: close what exists, in CloseOrder, inside one try: the
\* first close that raises ends the clause
RunFinally ==
    /\ pc = "finally"
    /\ LET todo == SelectSeq(CloseOrder, LAMBDA r : r \in acquired)
       IN  \E n \in 0..Len(todo) :
             released' = {todo[i] : i \in 1..n}
    /\ pc' = "done"
    /\ UNCHANGED <<renewal_status, old_expiry_time, new_expiry_time, error_message,
                   today_jst, gate, first_expiry, strategies, opened_by, direct_page, results, fills,
                   cache_count, readme_count, report, readme_calls, notes, tg_posts, tg_last, escaped,
                   acquired, logins, fetches,
                   vars_config, vars_validate, vars_ocr, vars_ts, vars_ctv>>

(***************************************************************************)
(* The whole run.                                                          *)
(***************************************************************************)
D(y, m, d) == [y |-> y, m |-> m, d |-> d]

\* what the detail page can show as the expiry: 2024年6月10日, and
\* 2024年2月30日 (no date)
RunMatches ==
    { <<<<2,0,2,4>>, <<6>>, <<1,0>>>>,
      <<<<2,0,2,4>>, <<2>>, <<3,0>>>> }
\* what the detail page shows after a renewal went through
RenewedMatches == { <<<<2,0,2,4>>, <<6>>, <<1,2>>>> }
\* the days the script may run on
RunTodays == {D(2024, 6, 8), D(2024, 6, 9)}
\* the keys a whole run is configured with
RunApiKeys == {None, "KEY"}
\* the Telegram settings a whole run is configured with: both, or no chat id
RunTelegram == {<<"TOKEN", "CHAT">>, <<"TOKEN", None>>}

\* In a whole run the interactive-challenge service answers at once, and it
\* gives its final answer within MaxRunPolls polls or never.
MaxRunPolls == 1
RunPollSeconds == {0}
RunPollOutcomes == IF ts_polls < MaxRunPolls THEN PollOutcomes ELSE {"processing"}

Init ==
    /\ InitValidate /\ InitOcr /\ InitTs /\ InitCtv /\ InitRun
    /\ api_key \in RunApiKeys
    /\ \E t \in RunTelegram : TELEGRAM_BOT_TOKEN = t[1] /\ TELEGRAM_CHAT_ID = t[2]
    /\ pc = "setup"

Next ==
    \/ RunSetupBrowser
    \/ RunLogin
    \/ RunGetExpiry(RunMatches)
    \/ RunGate(RunTodays)
    \/ RunGotoDetail
    \/ OpenButton
    \/ OpenLink
    \/ OpenDirect
    \/ RunNotOpened
    \/ SubmitStart
    \/ CtvDetect
    \/ TsCall
    \/ TsCreateTask
    \/ TsLoop
    \/ TsPoll(RunPollSeconds, RunPollOutcomes)
    \/ CtvInject
    \/ CtvManual
    \/ CtvWait
    \/ CtvFinal
    \/ SubmitImage
    \/ CaptchaPost(RunResponses)
    \/ SubmitFill
    \/ SubmitClick
    \/ SubmitClassify(RenewedMatches)
    \/ RunReport
    \/ RunFinally

Spec == Init /\ [][Next]_vars

(***************************************************************************)
(* Specifications of the two pure parts: _validate_code applied to every   *)
(* code up to MaxCodeLen, and CaptchaSolver.solve against a service that   *)
(* fails ocr_k times and then succeeds.                                    *)
(***************************************************************************)

ValidateCall ==
    /\ v_result = "none"
    /\ v_result' = PyBool(_validate_code(v_code))
    /\ UNCHANGED <<v_code, vars_config, vars_ocr, vars_ts, vars_ctv, vars_run>>

InitSpecValidate ==
    /\ v_code \in StringsUpTo(Alphabet, MaxCodeLen) /\ v_result = "none"
    /\ InitConfig
    /\ InitOcr /\ InitTs /\ api_key = None /\ InitCtv /\ InitRun /\ pc = "idle"
SpecValidate == InitSpecValidate /\ [][ValidateCall]_vars

InitSpecCaptcha ==
    /\ InitConfig /\ InitValidate
    /\ ocr_pc = "post" /\ retry_count = 0 /\ ocr_result = NoneSeq
    /\ ocr_calls = 0 /\ ocr_k \in 0..MaxFail /\ ocr_last = "none" /\ ocr_text = <<>>
    /\ ocr_later = FALSE
    /\ InitTs /\ api_key = None /\ InitCtv /\ InitRun /\ pc = "idle"
NextCaptcha == CaptchaPost(OcrResponses)
SpecCaptcha == InitSpecCaptcha /\ [][NextCaptcha]_vars

(***************************************************************************)
(* The eligibility gate on its own: every expiry text the page's pattern   *)
(* can give over a few years, months and days (dates and non-dates), and   *)
(* every day of the months around them as today.                           *)
(***************************************************************************)
GateMatches ==
    { <<y, m, d>> : y \in {<<2,0,2,3>>, <<2,0,2,4>>, <<0,0,0,1>>},
                    m \in {<<1>>, <<2>>, <<0,3>>, <<1,2>>, <<1,3>>},
                    d \in {<<1>>, <<0,2>>, <<2,8>>, <<2,9>>, <<3,0>>, <<3,1>>} }
GateTodays ==
    { D(y, m, d) : y \in 2023..2024, m \in {1, 2, 3, 12},
                   d \in 1..31 } \ { dt \in [y : 2023..2024, m : 1..12, d : 1..31] :
                                        dt.d > DaysInMonth(dt.y, dt.m) }

InitSpecGate ==
    /\ InitConfig /\ InitValidate /\ InitOcr /\ InitTs /\ api_key = None /\ InitCtv
    /\ renewal_status = "Unknown"
    /\ old_expiry_time \in ExpiryAfter(GateMatches, NoneSeq)
    /\ first_expiry = old_expiry_time
    /\ new_expiry_time = NoneSeq
    /\ error_message = None
    /\ today_jst = NoDate /\ gate = "none"
    /\ strategies = <<>> /\ opened_by = "none" /\ direct_page = "none"
    /\ results = <<>> /\ fills = 0
    /\ cache_count = 0 /\ readme_count = 0 /\ readme_calls = 0
    /\ notes = <<>> /\ tg_posts = 0 /\ tg_last = "none" /\ escaped = FALSE
    /\ acquired = SeqRange(Resources) /\ released = {}
    /\ logins = 1 /\ fetches = 1 /\ report = "none"
    /\ pc = "gate"
SpecGate == InitSpecGate /\ [][RunGate(GateTodays)]_vars

(***************************************************************************)
(* Notifier.notify on its own: every setting of the two Telegram values,   *)
(* every status of the run, every notification run() sends, one call.      *)
(***************************************************************************)
TelegramSettings == {None, "", "TOKEN"}
NotifyStatuses == {"Unknown", "Success", "Failed", "Unexpired"}
\* the notifications of run(), lines 1088-1172
NotifyNotes ==
    { <<"failed", "browser">>, <<"failed", "login">>, <<"not due yet", "gate">>,
      <<"not due", "expiry">>, <<"failed", "cannot open extend page">>,
      <<"success", "new expiry">>, <<"failed", "error message">> }

NotifyCall(N) ==
    /\ pc = "idle" /\ notes = <<>>
    /\ \E note \in N : notify(note, TelegramOutcomes)
    /\ UNCHANGED <<pc, renewal_status, old_expiry_time, new_expiry_time, error_message,
                   today_jst, gate, first_expiry, strategies, opened_by, direct_page,
                   results, fills, cache_count, readme_count, report, readme_calls,
                   escaped, acquired, released, logins, fetches,
                   vars_config, vars_validate, vars_ocr, vars_ts, vars_ctv>>

InitSpecNotify ==
    /\ TELEGRAM_BOT_TOKEN \in TelegramSettings
    /\ TELEGRAM_CHAT_ID \in {None, "", "CHAT"}
    /\ InitValidate /\ InitOcr /\ InitTs /\ api_key = None /\ InitCtv
    /\ renewal_status \in NotifyStatuses
    /\ old_expiry_time = NoneSeq /\ first_expiry = NoneSeq
    /\ new_expiry_time = NoneSeq
    /\ error_message = None
    /\ today_jst = NoDate /\ gate = "none"
    /\ strategies = <<>> /\ opened_by = "none" /\ direct_page = "none"
    /\ results = <<>> /\ fills = 0
    /\ cache_count = 0 /\ readme_count = 0 /\ readme_calls = 0
    /\ notes = <<>> /\ tg_posts = 0 /\ tg_last = "none" /\ escaped = FALSE
    /\ acquired = SeqRange(Resources) /\ released = {}
    /\ logins = 1 /\ fetches = 1 /\ report = "none"
    /\ pc = "idle"
SpecNotify == InitSpecNotify /\ [][NotifyCall(NotifyNotes)]_vars

(***************************************************************************)
(* The claims.                                                             *)
(***************************************************************************)
\* the day number of a date, counted from 0001-01-01 = 1
DaysBeforeMonth == <<0, 31, 59, 90, 120, 151, 181, 212, 243, 273, 304, 334>>
Ordinal(dt) ==
    LET y1 == dt.y - 1
    IN  365 * y1 + (y1 \div 4) - (y1 \div 100) + (y1 \div 400)
        + DaysBeforeMonth[dt.m] + (IF dt.m > 2 /\ IsLeap(dt.y) THEN 1 ELSE 0)
        + dt.d
\* the captured expiry text names a calendar date that has a day before it
HasExpiryDate(text) ==
    /\ text # NoneSeq
    /\ strptime(text) # ValueError
    /\ Ordinal(strptime(text)) >= 2

(* C1: in run(), whenever the expiry date was parsed and today (JST) is    *)
(* before expiry - 1 day, the OCR service and the interactive-challenge    *)
(* service are never called, no surface-opening strategy is attempted, no  *)
(* form is submitted, and the run ends with status Unexpired.              *)
C1_IneligibleRunAttemptsNothing ==
    (HasExpiryDate(first_expiry) /\ today_jst # NoDate
       /\ Ordinal(today_jst) < Ordinal(strptime(first_expiry)) - 1)
    => /\ ocr_calls = 0
       /\ ts_creates = 0 /\ ts_polls = 0
       /\ strategies = <<>>
       /\ fills = 0 /\ results = <<>>
       /\ (pc = "done" => renewal_status = "Unexpired")

(* C2: for every expiry date E and every current date T the gate of run()  *)
(* decides "eligible" if and only if T >= E - 1 day, and an eligible run    *)
(* goes on to the renewal steps; an ineligible run whose report was written *)
(* ends there.                                                              *)
C2_EligibleIffOneDayBefore ==
    (gate # "none" /\ HasExpiryDate(first_expiry))
    => /\ gate \in {"eligible", "ineligible"}
       /\ (gate = "eligible")
            <=> (Ordinal(today_jst) >= Ordinal(strptime(first_expiry)) - 1)
       /\ (gate = "eligible" => pc = "goto_detail")
       /\ (gate = "ineligible" /\ readme_count = readme_calls => pc = "finally")
\* the gate has let a run through on the day before an expiry that falls on
\* the first of a month
C2_Witness ==
    /\ gate = "eligible" /\ pc = "goto_detail"
    /\ HasExpiryDate(first_expiry)
    /\ strptime(first_expiry).d = 1
    /\ Ordinal(today_jst) = Ordinal(strptime(first_expiry)) - 1

IsPrefix(a, b) == Len(a) <= Len(b) /\ SubSeq(b, 1, Len(a)) = a

C4_RetryBudget ==
    /\ ocr_calls <= 3
    /\ ocr_pc = "done" =>
         /\ (ocr_result # NoneSeq) <=> (ocr_k < 3)
         /\ ocr_calls = Min({ocr_k + 1, 3})
C4_Witness ==
    ocr_pc = "done" /\ ocr_k = 2 /\ ocr_calls = 3 /\ ocr_result # NoneSeq

(* C5: _validate_code(code) is false for every code shorter than 4 or       *)
(* longer than 6, for every code whose characters are all the same, and for *)
(* every code with a non-digit; it is true for every string of 4 to 6       *)
(* digits with at least two distinct digits.                                *)
C5_ValidateCode ==
    v_result # "none" =>
      LET n == Len(v_code)
          all_same == \A i, j \in 1..n : v_code[i] = v_code[j]
          non_digit == \E i \in 1..n : v_code[i] \notin Digits
      IN  /\ (n < 4 \/ n > 6) => v_result = "False"
          /\ all_same => v_result = "False"
          /\ non_digit => v_result = "False"
          /\ (n \in 4..6 /\ ~non_digit /\ ~all_same) => v_result = "True"
\* seven digits, not all the same, were rejected
C5_Witness ==
    /\ v_result = "False" /\ Len(v_code) = 7
    /\ \A i \in 1..7 : v_code[i] \in Digits
    /\ v_code[1] # v_code[2]

(* C6: CaptchaSolver.solve never returns a value that fails validation:     *)
(* every code returned is 4 to 6 digits, not all the same; a response whose *)
(* extracted value fails validation is not returned, it uses up one of the  *)
(* 3 attempts and, while attempts remain, the loop goes on to a retry.      *)
C6_OnlyValidatedCodes ==
    /\ ocr_result # NoneSeq => IsPlausibleCode(ocr_result)
    /\ ocr_last = "invalid_value" =>
         /\ ocr_result = NoneSeq
         /\ retry_count = ocr_calls /\ retry_count \in 1..3
         /\ ocr_pc = (IF retry_count < 3 THEN "post" ELSE "done")
C6_Witness ==
    ocr_last = "invalid_value" /\ ocr_pc = "post" /\ retry_count = 2

(* C7: with no interactive-challenge credential (None or empty),            *)
(* TurnstileSolver.solve returns None and sends neither createTask nor      *)
(* getTaskResult.                                                           *)
C7_NoKeyNoCall ==
    api_key \in {None, ""} =>
      /\ ts_creates = 0 /\ ts_polls = 0
      /\ ts_pc \in {"idle", "call", "done"}
      /\ ts_pc = "done" => ts_result = None
C7_Witness ==
    api_key = "" /\ ts_pc = "done" /\ ts_result = None

C9_ErrorEndsCall ==
    ts_error_at # 0 =>
      /\ ts_pc = "done" /\ ts_result = None
      /\ ts_creates + ts_polls = ts_error_at
      /\ ts_error_at = 1 => ts_polls = 0
\* the second poll reported an error
C9_Witness ==
    ts_error_at = 3 /\ ts_polls = 2 /\ ts_pc = "done"

(* C10 as stated: after a solver token is obtained, the challenge is        *)
(* reported solved only if the hidden response field then holds a non-empty *)
(* value; with the field absent or empty it is reported unsolved.           *)
C10_SolvedOnlyWithFieldValue ==
    (ctv_result = "True" /\ ts_result = Token)
    => cf_field \notin {"absent", "empty"}
(* C10, amended: after a solver token is obtained, the challenge is         *)
(* reported solved only if the page shows a non-empty hidden field or a     *)
(* success text or checked widget.  With the field present the token is     *)
(* written into it and True is returned without a read-back; with the field *)
(* absent the script falls back to clicking and waiting, and it reports     *)
(* solved, the field still absent or empty, when the page shows a success   *)
(* text or a checked widget.                                                *)
C10_SolvedOnPageEvidence ==
    /\ (ctv_result = "True" /\ ts_result = Token)
       => (cf_field \notin {"absent", "empty"} \/ cf_success)
    /\ ctv_via = "injected" => cf_field = Token
\* solved was reported after a token, the hidden field absent
C10_Witness ==
    ctv_result = "True" /\ ts_result = Token /\ cf_field = "absent" /\ cf_success

\* run() has left the steps: it is writing the last report, in the finally
\* clause, or has returned
RunEnding == pc \in {"report", "finally", "done"}

(* C11: if login fails (wrong page after the submit, or an exception in     *)
(* login), the run ends with status Failed, login was called exactly once,  *)
(* and no later step is executed: no expiry fetch, no eligibility check, no *)
(* surface-opening strategy, no challenge solving, no submission.           *)
C11_LoginFailureEndsRun ==
    /\ logins <= 1
    /\ error_message \in {"login failed", "login error"} =>
         /\ logins = 1
         /\ renewal_status = "Failed"
         /\ pc \in {"finally", "done"}
         /\ fetches = 0 /\ gate = "none"
         /\ strategies = <<>>
         /\ ctv_pc = "idle" /\ ts_creates = 0 /\ ocr_calls = 0
         /\ fills = 0 /\ results = <<>>
C11_Witness ==
    /\ pc = "done" /\ error_message = "login failed"
    /\ renewal_status = "Failed" /\ logins = 1

(* C12: in submit_extend, when the renewal page holds no image challenge,   *)
(* the run ends with status Unexpired and not Failed.                       *)
C12_NoImageEndsUnexpired ==
    (error_message = NoImageText /\ pc = "done")
    => (renewal_status = "Unexpired" /\ renewal_status # "Failed")

(* C13: when the OCR service fails on 3 consecutive calls, the solver       *)
(* returns no code after exactly 3 calls and the run ends with status       *)
(* Failed, the error being the captcha-recognition failure; the form is     *)
(* neither filled nor submitted.                                            *)
C13_OcrFailureEndsFailed ==
    (ocr_k >= 3 /\ ocr_pc = "done")
    => /\ ocr_calls = 3 /\ ocr_result = NoneSeq
       /\ fills = 0 /\ results = <<>>
       /\ pc \in {"sub_ocr", "report", "finally", "done"}
       /\ RunEnding => /\ renewal_status = "Failed"
                       /\ error_message = "captcha recognition failed"
C13_Witness ==
    /\ pc = "done" /\ ocr_k = 3 /\ ocr_calls = 3 /\ ocr_result = NoneSeq
    /\ renewal_status = "Failed"
    /\ error_message = "captcha recognition failed"
    /\ fills = 0 /\ results = <<>>

(* C14: when the run is eligible, the page shows no interactive challenge,  *)
(* the OCR service returns a valid code on its first call and the page      *)
(* after the submission holds a success marker and no error marker (and was *)
(* read without an exception), the run ends with status Success after       *)
(* exactly one OCR call and one submission, and get_expiry is called again  *)
(* after the submission.                                                    *)
C14_EligibleRunSucceeds ==
    (/\ gate = "eligible" /\ ctv_via = "no_widget"
     /\ ocr_k = 0 /\ ocr_pc = "done"
     /\ results = <<"success">>
     /\ RunEnding /\ error_message # ExceptionText)
    => /\ renewal_status = "Success"
       /\ ocr_calls = 1
       /\ fills = 1 /\ Len(results) = 1
       /\ fetches = 2
       /\ new_expiry_time = old_expiry_time
\* expiry 2024-06-10, today 2024-06-09, the code "1234" on the first call
C14_Witness ==
    /\ pc = "done" /\ gate = "eligible" /\ ctv_via = "no_widget"
    /\ first_expiry = FormatExpiry(<<<<2,0,2,4>>, <<6>>, <<1,0>>>>)
    /\ today_jst = D(2024, 6, 9)
    /\ ocr_calls = 1 /\ ocr_result = <<"1", "2", "3", "4">>
    /\ results = <<"success">> /\ renewal_status = "Success"
    /\ fetches = 2 /\ new_expiry_time # NoneSeq

(* C15: every run of run() generates the status report exactly once: on     *)
(* whatever path the run ends (browser setup failure, login failure, the    *)
(* ineligible short-circuit, surface not reachable, submission finished, an *)
(* exception of a navigation step), generate_readme was called once.        *)
C15_ReportExactlyOnce ==
    pc = "done" => readme_calls = 1

(* C16: every run that returns with a terminal status has written both      *)
(* artifacts: save_cache and generate_readme were both called, also when    *)
(* the run ends by browser-setup failure, login failure or failure to reach *)
(* the renewal surface.                                                     *)
C16_BothArtifactsWritten ==
    (pc = "done" /\ ~escaped)
    => (cache_count >= 1 /\ readme_count >= 1)

(* C17: a write failure of the status report does not propagate out of the  *)
(* reporting step: after it no exception leaves run(), and the run that has *)
(* ended has sent its notification.                                         *)
C17_WriteFailureNotPropagated ==
    (readme_calls > readme_count)
    => /\ ~escaped
       /\ pc = "done" => notes # <<>>

(* C18: on every exit path of run() every acquired resource is released,    *)
(* and a close that fails does not keep the remaining ones from being       *)
(* released.  The finally clause closes in the order page, context,         *)
(* browser, driver, so at most the one resource whose close failed is left  *)
(* unreleased.                                                              *)
C18_ResourcesReleased ==
    pc = "done" => Cardinality(acquired \ released) <= 1

(* C19: no exception raised by a workflow step escapes run(): with the      *)
(* reports written, run() returns normally, its status one of Success,      *)
(* Failed, Unexpired, Unknown.                                              *)
C19_NoExceptionEscapes ==
    /\ (readme_calls = readme_count) => ~escaped
    /\ renewal_status \in {"Success", "Failed", "Unexpired", "Unknown"}

(* C20: when a run ends with status Unknown (the page after the submission  *)
(* shows neither an error nor a success marker), the section of the status  *)
(* report and the subject of the notification are not the failure ones (nor *)
(* the success ones).                                                       *)
C20_UnknownShownAsUnknown ==
    (/\ pc = "done" /\ renewal_status = "Unknown"
     /\ results = <<"neither">> /\ ~escaped /\ notes # <<>>)
    => /\ report \notin {"failed", "success"}
       /\ notes[Len(notes)][1] \notin {"failed", "success"}

(* C21: a run whose status is Unexpired is never reported as an error:     *)
(* error_message stays None, no report of it uses another section than     *)
(* the not-yet-due one, no notification of it is the failure message; and  *)
(* when such a run has ended without an exception leaving run(), the       *)
(* report holds the not-yet-due section and a not-yet-due notification was *)
(* sent.                                                                   *)
C21_UnexpiredNeverAnError ==
    renewal_status = "Unexpired" =>
        /\ error_message = None
        /\ report \in {"none", "unexpired"}
        /\ \A i \in 1..Len(notes) : notes[i][1] \in {"not due yet", "not due"}
        /\ (pc = "done" /\ ~escaped) => (report = "unexpired" /\ notes # <<>>)
C21_Witness ==
    /\ pc = "done" /\ renewal_status = "Unexpired" /\ report = "unexpired"
    /\ notes = << <<"not due yet", "gate">> >>

(* C22: once renewal_status holds Success, Failed or Unexpired, no step of *)
(* the run changes it again.                                               *)
C22_StatusAssignedOnce ==
    [][(renewal_status \in {"Success", "Failed", "Unexpired"})
          => (renewal_status' = renewal_status)]_vars

(* C23: a call of Notifier.notify, however its request ends (status 200,   *)
(* another status, an exception), leaves the status of the run and its     *)
(* error message as they were and lets no exception out; when the bot      *)
(* token or the chat id is missing or empty it sends no request.           *)
C23_NotifierFailureSwallowed ==
    [][(notes' # notes) =>
          (/\ renewal_status' = renewal_status
           /\ error_message' = error_message
           /\ escaped' = escaped /\ pc' = pc
           /\ (TELEGRAM_BOT_TOKEN \in Falsy \/ TELEGRAM_CHAT_ID \in Falsy)
                 => (tg_posts' = tg_posts /\ tg_last' = tg_last))]_vars
C23_Witness ==
    /\ pc = "idle" /\ notes # <<>> /\ tg_posts = 1 /\ tg_last = "raise"
    /\ renewal_status = "Success"

(* C24: when get_expiry found no expiry on the detail page, run() does not *)
(* end there: the gate is skipped (no decision, today not read),           *)
(* old_expiry_time stays unset until the expiry is fetched again, and the  *)
(* run does not come to its end without having tried to open the extend    *)
(* page, unless page.goto of line 1141 raised.                             *)
C24_ParseFailureGoesOn ==
    (fetches >= 1 /\ first_expiry = NoneSeq /\ pc # "gate") =>
        /\ gate = "skipped" /\ today_jst = NoDate
        /\ (fetches = 1 => old_expiry_time = NoneSeq)
        /\ renewal_status = "Unknown" => error_message = None
        /\ (pc \in {"finally", "done"} /\ ~escaped) => strategies # <<>>
C24_Witness ==
    /\ pc = "open_link" /\ fetches = 1 /\ first_expiry = NoneSeq
    /\ old_expiry_time = NoneSeq /\ gate = "skipped"

(* C25: open_extend tries the button, then the link, then the extend URL,  *)
(* in this order and each at most once; the strategy that opened the form  *)
(* is the last one tried, and the extend URL is not visited when a click   *)
(* opened the form.                                                        *)
C25_FirstSuccessWins ==
    /\ IsPrefix(strategies, <<"button", "link", "direct">>)
    /\ opened_by # "none" =>
          /\ strategies # <<>>
          /\ strategies[Len(strategies)] = opened_by
    /\ opened_by \in {"button", "link"} => direct_page = "none"
    /\ direct_page # "none" => strategies = <<"button", "link", "direct">>
C25_Witness ==
    /\ opened_by = "link" /\ strategies = <<"button", "link">>
    /\ pc = "sub_start"

(* C26: when the button, the link and the extend URL all failed, the       *)
(* submission is never entered, and the run ends Unexpired if the page of  *)
(* the extend URL said the window is not open, and otherwise Failed with   *)
(* the reason that the extend page could not be opened.                    *)
C26_AllStrategiesFailed ==
    (pc \in {"finally", "done"} /\ direct_page # "none" /\ opened_by = "none") =>
        /\ results = <<>> /\ fills = 0 /\ ctv_pc = "idle" /\ ocr_calls = 0
        /\ IF direct_page = "not_open"
           THEN renewal_status = "Unexpired"
           ELSE /\ renewal_status = "Failed"
                /\ error_message = "cannot open extend page"

(* C27: when the interactive challenge ended unresolved, submit_extend is  *)
(* not Failed by it and goes on as it would have: it can read the image    *)
(* challenge and call the OCR service, fill a returned code, and click     *)
(* submit.                                                                 *)
C27_UnresolvedChallengeGoesOn ==
    ctv_result = "False" =>
        /\ pc = "sub_turnstile" =>
              /\ renewal_status # "Failed"
              /\ ENABLED (SubmitImage /\ pc' = "sub_ocr")
        /\ (pc = "sub_ocr" /\ ocr_pc = "done" /\ ocr_result # NoneSeq) =>
              ENABLED (SubmitFill /\ pc' = "sub_click")
        /\ pc = "sub_click" => ENABLED (SubmitClick /\ pc' = "sub_classify")
C27_Witness ==
    /\ pc = "done" /\ ctv_result = "False" /\ ctv_via = "none"
    /\ results = <<"success">> /\ renewal_status = "Success"

(* C28: on a Success run old_expiry_time is still the expiry read before   *)
(* the submission.                                                         *)
C28_OldExpiryKept ==
    (pc \in {"report", "finally", "done"} /\ renewal_status = "Success") =>
        old_expiry_time = first_expiry

(* C29: a code returned by CaptchaSolver.solve is the first run of digits  *)
(* of the body it was taken from, cut to 6; a body whose first run of      *)
(* digits does not validate gives no code, also when a later run of it     *)
(* would validate.                                                         *)
C29_FirstDigitRunOnly ==
    /\ ocr_result # NoneSeq => ocr_result = Prefix(FirstDigitRun(ocr_text), 6)
    /\ (ocr_last = "invalid_value" /\ ocr_later) =>
          (ocr_result = NoneSeq /\ ocr_text = <<>>)
C29_Witness ==
    /\ ocr_last = "invalid_value" /\ ocr_later /\ ocr_result = NoneSeq
    /\ ocr_calls >= 1

(* C30: in submit_extend the OCR service is called only after the          *)
(* interactive challenge has returned, the form is filled only with a code *)
(* the solver returned (4 to 6 digits, not all the same), submit is        *)
(* clicked only after the fill and at most once, and the result page is    *)
(* classified only after the click.                                        *)
C30_SubmitStepsInOrder ==
    /\ (ocr_pc # "idle" \/ ocr_calls > 0) => ctv_pc = "done"
    /\ pc \in {"sub_ocr", "sub_click", "sub_classify"} => ctv_pc = "done"
    /\ fills > 0 => (fills = 1 /\ ocr_pc = "done" /\ IsPlausibleCode(ocr_result))
    /\ pc = "sub_click" => (fills = 1 /\ results = <<>>)
    /\ results # <<>> => (fills = 1 /\ Len(results) = 1)
    /\ pc = "sub_classify" => results # <<>>
    /\ renewal_status = "Success" => results = <<"success">>
C30_Witness ==
    /\ pc = "sub_classify" /\ fills = 1 /\ ocr_calls = 2 /\ ctv_result = "True"
    /\ results = <<"error">>

(* C31: the error markers are looked for before the success markers: once  *)
(* submit_extend has returned, a result page that held an error marker,    *)
(* with or without a success marker, has given Failed, and the status is   *)
(* Success only when the form was filled and submitted and the result page *)
(* held a success marker and no error marker.                              *)
C31_ErrorMarkersFirst ==
    /\ (RunEnding /\ results # <<>> /\ results[Len(results)] \in {"error", "both"})
          => renewal_status = "Failed"
    /\ renewal_status = "Success" =>
          /\ fills = 1 /\ Len(results) = 1
          /\ results[1] = "success"
          /\ pc \in {"report", "finally", "done"}
C31_Witness ==
    /\ pc = "report" /\ results = <<"both">> /\ renewal_status = "Failed"
    /\ error_message = "wrong code or verification failed"

(* C32: when the expiry text read from the page is no calendar date, the   *)
(* gate's computation raises and the exception is caught: nothing is       *)
(* reported or cached at the gate, the status stays Unknown with no error  *)
(* message, run() goes on to the detail page and open_extend as after an   *)
(* eligible decision, and it ends Unexpired or Failed only by what a later *)
(* step found (the extend page saying the window is not open, a strategy   *)
(* or the submission having been tried).                                   *)
C32_GateExceptionGoesOn ==
    (fetches >= 1 /\ first_expiry # NoneSeq /\ strptime(first_expiry) = ValueError
       /\ pc # "gate") =>
        /\ gate = "raised"
        /\ pc = "goto_detail" =>
              /\ renewal_status = "Unknown" /\ error_message = None
              /\ readme_calls = 0 /\ cache_count = 0 /\ notes = <<>>
              /\ ENABLED (RunGotoDetail /\ pc' = "open_button")
        /\ renewal_status = "Unexpired" => direct_page = "not_open"
        /\ renewal_status = "Failed" => strategies # <<>>
        /\ (pc \in {"finally", "done"} /\ ~escaped) => strategies # <<>>
C32_Witness ==
    /\ pc = "done" /\ gate = "raised" /\ strptime(first_expiry) = ValueError
    /\ renewal_status = "Success" /\ results = <<"success">>

=============================================================================
